---- MODULE Spec2Model ----
(***************************************************************************)
(* Model of archive_upload/lib/jobrunner.py: the LocalQAdapter that        *)
(* forwards start/stop/stop_all to a localq scheduler, maps the            *)
(* scheduler's raw statuses to arteria states and re-reads the exit code   *)
(* of failed dsmc jobs.                                                    *)
(*                                                                         *)
(* Python strings are sequences of one-character strings, so that the      *)
(* substring tests and the regular expression are computed, not assumed.   *)
(* Python's None and an optional value x are <<>> and <<x>>.               *)
(***************************************************************************)
EXTENDS Integers, Sequences, FiniteSets, TLC

VARIABLES jobs, nbr_of_cores, whitelisted_warnings, last

vars == <<jobs, nbr_of_cores, whitelisted_warnings, last>>

----------------------------------------------------------------------------
(* Bounds *)

MaxJobs  == 1      \* jobs the scheduler accepts in one behaviour
MaxLines == 1      \* lines of a job's output log

----------------------------------------------------------------------------
(* Values *)

None == <<>>
Some(x) == <<x>>

Return(v) == [kind |-> "return", value |-> v]
Raise(e)  == [kind |-> "raise",  value |-> e]

\* localq.localQ_server.Status, as named by localq2arteria_status
COMPLETED == "COMPLETED"
FAILED    == "FAILED"
PENDING   == "PENDING"
RUNNING   == "RUNNING"
CANCELLED == "CANCELLED"
NOT_FOUND == "NOT_FOUND"

\* arteria.web.state.State, as named by localq2arteria_status
arteria_state == [DONE |-> "done", ERROR |-> "error", PENDING |-> "pending",
                  STARTED |-> "started", CANCELLED |-> "cancelled", NONE |-> "none"]

\* Raw statuses handed to the conversion: the six known ones and two the
\* table does not list.
RawInputs == {COMPLETED, FAILED, PENDING, RUNNING, CANCELLED, NOT_FOUND,
              "WAITING", ""}

\* Commands submitted in the model: "dsmc a", "md5sum a", "dsmc a|md5sum", "ls"
CmdDsmc  == <<"d","s","m","c"," ","a">>
CmdMd5   == <<"m","d","5","s","u","m"," ","a">>
CmdBoth  == <<"d","s","m","c"," ","a","|","m","d","5","s","u","m">>
CmdOther == <<"l","s">>
Cmds == {CmdDsmc, CmdMd5, CmdBoth, CmdOther}

TokDsmc   == <<"d","s","m","c">>
TokMd5sum == <<"m","d","5","s","u","m">>

\* Warning codes, and the log lines "xANS2W ANS1W" and "ANSW1"
ANS1W == <<"A","N","S","1","W">>
ANS2W == <<"A","N","S","2","W">>
LogLines == { <<"x","A","N","S","2","W"," ","A","N","S","1","W">>,
              <<"A","N","S","W","1">> }

RECURSIVE SeqsUpTo(_, _)
SeqsUpTo(S, n) ==
    IF n = 0 THEN { <<>> }
    ELSE LET shorter == SeqsUpTo(S, n - 1)
         IN  shorter \cup { Append(s, x) : s \in { t \in shorter : Len(t) = n - 1 }, x \in S }

Logs == SeqsUpTo(LogLines, MaxLines)

\* configured whitelists: empty, one code, both codes
Whitelists == { {}, {ANS1W}, {ANS1W, ANS2W} }

\* core counts a caller asks for
CoreArgs == {1, 2}

\* exit codes of a failing process: dsmc warning (8) and dsmc error (12)
ReturnCodes == {8, 12}

RunDirs    == { <<"/">> }
StdoutArgs == { Some("log") }

----------------------------------------------------------------------------
(* Python string operations *)

\* needle in hay
Contains(hay, needle) ==
    \E i \in 0 .. (Len(hay) - Len(needle)) :
        \A k \in 1 .. Len(needle) : hay[i + k] = needle[k]

Digits == {"0","1","2","3","4","5","6","7","8","9"}

\* number of consecutive digits of line starting at position i
RECURSIVE DigitRun(_, _)
DigitRun(line, i) ==
    IF i <= Len(line) /\ line[i] \in Digits THEN 1 + DigitRun(line, i + 1) ELSE 0

\* length of the match of ANS[0-9]+W at position i of line, 0 when none
MatchAt(line, i) ==
    IF i + 2 <= Len(line) /\ line[i] = "A" /\ line[i+1] = "N" /\ line[i+2] = "S"
    THEN LET d == DigitRun(line, i + 3)
         IN  IF d >= 1 /\ i + 3 + d <= Len(line) /\ line[i + 3 + d] = "W"
             THEN 4 + d ELSE 0
    ELSE 0

\* re.findall(r'ANS[0-9]+W', line): leftmost non-overlapping matches, in order
RECURSIVE FindAllFrom(_, _)
FindAllFrom(line, i) ==
    IF i > Len(line) THEN <<>>
    ELSE LET m == MatchAt(line, i)
         IN  IF m > 0 THEN <<SubSeq(line, i, i + m - 1)>> \o FindAllFrom(line, i + m)
             ELSE FindAllFrom(line, i + 1)

findall(line) == FindAllFrom(line, 1)

\* the warnings list built by the loop over the lines of the log
RECURSIVE CollectWarnings(_)
CollectWarnings(dsmc_log) ==
    IF dsmc_log = <<>> THEN <<>>
    ELSE findall(Head(dsmc_log)) \o CollectWarnings(Tail(dsmc_log))

Range(s) == { s[i] : i \in DOMAIN s }

----------------------------------------------------------------------------
(* The localq scheduler, as the adapter uses it.  A job is                 *)
(* [cmd, status, returncode, stdout]: returncode is job.proc.returncode    *)
(* and stdout the lines of the file job.stdout names.  The server is the   *)
(* sequence of its jobs; a job's id is its index.                          *)

NewJob(cmd) == [cmd |-> cmd, status |-> PENDING, returncode |-> None, stdout |-> <<>>]

get_job_with_id(server, job_id) ==
    IF job_id \in DOMAIN server THEN Some(server[job_id]) ELSE None

get_status(server, job_id) ==
    IF job_id \in DOMAIN server THEN server[job_id].status ELSE NOT_FOUND

get_status_all(server) == [k \in DOMAIN server |-> server[k].status]

\* server.add: the pairs <<result, server afterwards>> a launch can end in
server_add(server, cmd) ==
    { <<None, server>> } \cup
    { <<Some(Len(server) + 1), Append(server, NewJob(cmd))>> : x \in { y \in {1} : Len(server) < MaxJobs } }

Cancel(job) ==
    IF job.status \in {PENDING, RUNNING} THEN [job EXCEPT !.status = CANCELLED] ELSE job

\* server.stop_job_with_id: <<result, server afterwards>>
stop_job_with_id(server, job_id) ==
    IF job_id \in DOMAIN server
    THEN <<Some(job_id), [server EXCEPT ![job_id] = Cancel(@)]>>
    ELSE <<None, server>>

\* server.stop_all_jobs: <<result, server afterwards>>
stop_all_jobs(server) == <<None, [k \in DOMAIN server |-> Cancel(server[k])]>>

----------------------------------------------------------------------------
(* LocalQAdapter *)

Self == [nbr_of_cores |-> nbr_of_cores,
         whitelisted_warnings |-> whitelisted_warnings,
         server |-> jobs]

\* variant: the final else branch reports an error instead of none
localq2arteria_status_strict(status) ==
    IF status = COMPLETED THEN arteria_state.DONE
    ELSE IF status = FAILED THEN arteria_state.ERROR
    ELSE IF status = PENDING THEN arteria_state.PENDING
    ELSE IF status = RUNNING THEN arteria_state.STARTED
    ELSE IF status = CANCELLED THEN arteria_state.CANCELLED
    ELSE IF status = NOT_FOUND THEN arteria_state.NONE
    ELSE arteria_state.ERROR

localq2arteria_status(status) ==
    IF status = COMPLETED THEN arteria_state.DONE
    ELSE IF status = FAILED THEN arteria_state.ERROR
    ELSE IF status = PENDING THEN arteria_state.PENDING
    ELSE IF status = RUNNING THEN arteria_state.STARTED
    ELSE IF status = CANCELLED THEN arteria_state.CANCELLED
    ELSE IF status = NOT_FOUND THEN arteria_state.NONE
    ELSE arteria_state.NONE

\* def _parse_dsmc_return_code(job): the declared positional parameters
parse_dsmc_params == <<"job">>

\* A call of _parse_dsmc_return_code with the positional arguments args.
\* The body names self, which is not a parameter and not a global.
parse_dsmc_return_code(args) ==
    IF Len(args) # Len(parse_dsmc_params) THEN Raise("TypeError")
    ELSE LET job == args[1]
         IN  IF job.returncode = Some(8)
             THEN LET warnings == CollectWarnings(job.stdout)
                  IN  IF warnings # <<>> THEN Raise("NameError")
                      ELSE Return(arteria_state.DONE)
             ELSE Return(arteria_state.ERROR)

\* variant: the test for md5sum in the command is left out
status_no_md5sum(self, job_id) ==
    LET job == get_job_with_id(self.server, job_id)
        arteria_status == localq2arteria_status(get_status(self.server, job_id))
    IN  IF arteria_status = arteria_state.ERROR
        THEN IF job = None THEN Raise("AttributeError")
             ELSE IF Contains(job[1].cmd, TokDsmc)
                  THEN parse_dsmc_return_code(<<self, job[1]>>)
                  ELSE Return(arteria_status)
        ELSE Return(arteria_status)

\* variant: the test for dsmc in the command is left out
status_no_dsmc(self, job_id) ==
    LET job == get_job_with_id(self.server, job_id)
        arteria_status == localq2arteria_status(get_status(self.server, job_id))
    IN  IF arteria_status = arteria_state.ERROR
        THEN IF job = None THEN Raise("AttributeError")
             ELSE IF ~Contains(job[1].cmd, TokMd5sum)
                  THEN parse_dsmc_return_code(<<self, job[1]>>)
                  ELSE Return(arteria_status)
        ELSE Return(arteria_status)

\* status(self, job_id); self._parse_dsmc_return_code(job) passes self and job
status(self, job_id) ==
    LET job == get_job_with_id(self.server, job_id)
        arteria_status == localq2arteria_status(get_status(self.server, job_id))
    IN  IF arteria_status = arteria_state.ERROR
        THEN IF job = None THEN Raise("AttributeError")
             ELSE IF Contains(job[1].cmd, TokDsmc) /\ ~Contains(job[1].cmd, TokMd5sum)
                  THEN parse_dsmc_return_code(<<self, job[1]>>)
                  ELSE Return(arteria_status)
        ELSE Return(arteria_status)

\* variant: status_all rewrites the state of a failed dsmc job whose exit
\* code is 8 and whose warnings are all whitelisted
status_all_rewriting(self) ==
    LET raw == get_status_all(self.server)
        rewritten(k) ==
            LET job == self.server[k]
            IN  IF /\ raw[k] = FAILED
                   /\ Contains(job.cmd, TokDsmc) /\ ~Contains(job.cmd, TokMd5sum)
                   /\ job.returncode = Some(8)
                   /\ Range(CollectWarnings(job.stdout)) \subseteq self.whitelisted_warnings
                THEN arteria_state.DONE
                ELSE localq2arteria_status(raw[k])
    IN  Return([k \in DOMAIN raw |-> rewritten(k)])

status_all(self) ==
    LET raw == get_status_all(self.server)
    IN  Return([k \in DOMAIN raw |-> localq2arteria_status(raw[k])])

----------------------------------------------------------------------------
(* State machine.  last is the most recent event: an adapter call with     *)
(* its arguments and outcome and the scheduler call it made (fn, fargs,    *)
(* fresult), or a scheduler-side change of a job.                          *)

Event(op, args, outcome, fn, fargs, fresult) ==
    [op |-> op, args |-> args, outcome |-> outcome,
     fn |-> fn, fargs |-> fargs, fresult |-> fresult]

Init ==
    /\ jobs = <<>>
    /\ nbr_of_cores = 2
    /\ whitelisted_warnings \in Whitelists
    /\ last = Event("__init__", <<>>, Return(None), "run", <<>>, None)

\* variant: a launch the scheduler refuses is raised as an error
start_raising(cmd, cores, run_dir, stdout, stderr) ==
    \E r \in server_add(jobs, cmd) :
        /\ jobs' = r[2]
        /\ last' = Event("start", <<cmd, cores, run_dir, stdout, stderr>>,
                         IF r[1] = None THEN Raise("RuntimeError") ELSE Return(r[1]),
                         "add", <<cmd, cores, run_dir, stdout, stderr>>, r[1])
        /\ UNCHANGED <<nbr_of_cores, whitelisted_warnings>>

start(cmd, cores, run_dir, stdout, stderr) ==
    \E r \in server_add(jobs, cmd) :
        /\ jobs' = r[2]
        /\ last' = Event("start", <<cmd, cores, run_dir, stdout, stderr>>, Return(r[1]),
                         "add", <<cmd, cores, run_dir, stdout, stderr>>, r[1])
        /\ UNCHANGED <<nbr_of_cores, whitelisted_warnings>>

stop(job_id) ==
    LET r == stop_job_with_id(jobs, job_id)
    IN  /\ jobs' = r[2]
        /\ last' = Event("stop", <<job_id>>, Return(r[1]),
                         "stop_job_with_id", <<job_id>>, r[1])
        /\ UNCHANGED <<nbr_of_cores, whitelisted_warnings>>

stop_all ==
    LET r == stop_all_jobs(jobs)
    IN  /\ jobs' = r[2]
        /\ last' = Event("stop_all", <<>>, Return(r[1]), "stop_all_jobs", <<>>, r[1])
        /\ UNCHANGED <<nbr_of_cores, whitelisted_warnings>>

\* variant: asking for the status of a job also stops it
StatusStopping(job_id) ==
    /\ last' = Event("status", <<job_id>>, status(Self, job_id),
                     "get_status", <<job_id>>, get_status(jobs, job_id))
    /\ jobs' = stop_job_with_id(jobs, job_id)[2]
    /\ UNCHANGED <<nbr_of_cores, whitelisted_warnings>>

Status(job_id) ==
    /\ last' = Event("status", <<job_id>>, status(Self, job_id),
                     "get_status", <<job_id>>, get_status(jobs, job_id))
    /\ UNCHANGED <<jobs, nbr_of_cores, whitelisted_warnings>>

StatusAll ==
    /\ last' = Event("status_all", <<>>, status_all(Self),
                     "get_status_all", <<>>, get_status_all(jobs))
    /\ UNCHANGED <<jobs, nbr_of_cores, whitelisted_warnings>>

Convert(raw) ==
    /\ last' = Event("localq2arteria_status", <<raw>>, Return(localq2arteria_status(raw)),
                     "", <<>>, None)
    /\ UNCHANGED <<jobs, nbr_of_cores, whitelisted_warnings>>

\* scheduler side: a pending job gets its cores and runs
JobRuns(job_id) ==
    /\ job_id \in DOMAIN jobs
    /\ jobs[job_id].status = PENDING
    /\ jobs' = [jobs EXCEPT ![job_id].status = RUNNING]
    /\ last' = Event("scheduler", <<job_id>>, Return(None), "", <<>>, None)
    /\ UNCHANGED <<nbr_of_cores, whitelisted_warnings>>

\* scheduler side: a running job's process exits with code rc, having
\* written dsmc_log to its stdout file (the log of a process that exits
\* with 0 is read by nothing and left empty)
JobExits(job_id, rc, dsmc_log) ==
    /\ job_id \in DOMAIN jobs
    /\ rc = 0 => dsmc_log = <<>>
    /\ jobs[job_id].status = RUNNING
    /\ jobs' = [jobs EXCEPT ![job_id] =
                   [@ EXCEPT !.status = IF rc = 0 THEN COMPLETED ELSE FAILED,
                             !.returncode = Some(rc),
                             !.stdout = dsmc_log]]
    /\ last' = Event("scheduler", <<job_id>>, Return(None), "", <<>>, None)
    /\ UNCHANGED <<nbr_of_cores, whitelisted_warnings>>

JobIds == 1 .. (MaxJobs + 1)

Next ==
    \/ \E cmd \in Cmds, cores \in CoreArgs, run_dir \in RunDirs, stdout \in StdoutArgs :
           start(cmd, cores, run_dir, stdout, None)
    \/ \E job_id \in JobIds : stop(job_id)
    \/ stop_all
    \/ \E job_id \in JobIds : Status(job_id)
    \/ StatusAll
    \/ \E raw \in RawInputs : Convert(raw)
    \/ \E job_id \in JobIds : JobRuns(job_id)
    \/ \E job_id \in JobIds, rc \in ReturnCodes \cup {0}, dsmc_log \in Logs :
           JobExits(job_id, rc, dsmc_log)

Spec == Init /\ [][Next]_vars

----------------------------------------------------------------------------
(* Properties *)

\* the mapping of raw statuses to caller statuses, as documented
DocumentedMapping(raw) ==
    CASE raw = COMPLETED -> "done"
      [] raw = FAILED    -> "error"
      [] raw = PENDING   -> "pending"
      [] raw = RUNNING   -> "started"
      [] raw = CANCELLED -> "cancelled"
      [] raw = NOT_FOUND -> "none"
      [] OTHER           -> "none"

RawStatusOf(job_id) == IF job_id \in DOMAIN jobs THEN jobs[job_id].status ELSE NOT_FOUND

HasDsmc(job)   == Contains(job.cmd, TokDsmc)
HasMd5sum(job) == Contains(job.cmd, TokMd5sum)

\* a failed backup-tool job: the precondition of the exit-code heuristic
FailedBackupJob(job) == job.status = FAILED /\ HasDsmc(job) /\ ~HasMd5sum(job)

WarningsOf(job) == Range(CollectWarnings(job.stdout))
AllWhitelisted(job) == WarningsOf(job) \subseteq whitelisted_warnings

\* the last event is a status call for the known job job_id
StatusCalledOn(job_id) ==
    last.op = "status" /\ job_id \in DOMAIN jobs /\ last.args = <<job_id>>

\* C1: localq2arteria_status maps completed, failed, pending, running,
\* cancelled and not-found to done, error, pending, started, cancelled and
\* none, and every other value to none.
C1_Mapping ==
    last.op = "localq2arteria_status" =>
        last.outcome = Return(DocumentedMapping(last.args[1]))

C1_Witness ==
    /\ last.op = "localq2arteria_status"
    /\ last.args[1] \notin {COMPLETED, FAILED, PENDING, RUNNING, CANCELLED, NOT_FOUND}
    /\ last.outcome = Return("none")

\* C2: for a failed job whose command has dsmc and not md5sum and whose
\* return code is 8, status returns done when every warning found in the log
\* is whitelisted and error when some warning found is not.
C2_WarningsDecide ==
    \A job_id \in DOMAIN jobs :
        (StatusCalledOn(job_id) /\ FailedBackupJob(jobs[job_id])
            /\ jobs[job_id].returncode = Some(8))
        => last.outcome = Return(IF AllWhitelisted(jobs[job_id]) THEN "done" ELSE "error")

\* C3: for a failed job whose command has dsmc and not md5sum and whose
\* return code is not 8, status returns error whatever the log and whitelist.
C3_OtherCodeIsError ==
    \A job_id \in DOMAIN jobs :
        (StatusCalledOn(job_id) /\ FailedBackupJob(jobs[job_id])
            /\ jobs[job_id].returncode # Some(8))
        => last.outcome = Return("error")

\* C4: for every failed backup-tool job status raises nothing and returns
\* done or error.
C4_NeverRaises ==
    \A job_id \in DOMAIN jobs :
        (StatusCalledOn(job_id) /\ FailedBackupJob(jobs[job_id]))
        => (last.outcome.kind = "return" /\ last.outcome.value \in {"done", "error"})

C6_Md5sumSkipsHeuristic ==
    \A job_id \in DOMAIN jobs :
        (StatusCalledOn(job_id) /\ HasMd5sum(jobs[job_id]))
        => last.outcome = Return(DocumentedMapping(jobs[job_id].status))

C6_Witness ==
    \E job_id \in DOMAIN jobs :
        /\ StatusCalledOn(job_id)
        /\ HasMd5sum(jobs[job_id]) /\ HasDsmc(jobs[job_id])
        /\ jobs[job_id].status = FAILED /\ jobs[job_id].returncode = Some(8)
        /\ WarningsOf(jobs[job_id]) # {} /\ AllWhitelisted(jobs[job_id])
        /\ last.outcome = Return("error")

\* C7: start, stop and stop_all hand their arguments to the scheduler's add,
\* stop_job_with_id and stop_all_jobs and return the scheduler's result
\* unchanged: start returns none without raising when the launch fails and a
\* job id otherwise, stop returns none without raising for an unknown job id.
C7_Forwarding ==
    /\ last.op = "start" =>
          /\ last.fn = "add" /\ last.fargs = last.args
          /\ last.outcome = Return(last.fresult)
          /\ last.fresult # None => last.fresult[1] \in DOMAIN jobs
    /\ last.op = "stop" =>
          /\ last.fn = "stop_job_with_id" /\ last.fargs = last.args
          /\ last.outcome = Return(last.fresult)
          /\ last.args[1] \notin DOMAIN jobs => last.outcome = Return(None)
    /\ last.op = "stop_all" =>
          /\ last.fn = "stop_all_jobs" /\ last.fargs = last.args
          /\ last.outcome = Return(last.fresult)

C7_Witness ==
    last.op = "start" /\ last.fresult = None /\ last.outcome = Return(None)

\* what status gives for job_id, as a function of the scheduler's present
\* state alone
PresentStatus(job_id) ==
    IF job_id \in DOMAIN jobs /\ FailedBackupJob(jobs[job_id])
    THEN Raise("TypeError")
    ELSE Return(DocumentedMapping(RawStatusOf(job_id)))

\* C8: a status or status_all call changes neither the scheduler's jobs nor
\* the whitelist nor the core budget, and whatever calls and scheduler-side
\* changes came before, the outcome of status is determined by the job's
\* present raw status and command.
C8_NoOwnState ==
    [][ last'.op \in {"status", "status_all"} =>
          /\ UNCHANGED <<jobs, whitelisted_warnings, nbr_of_cores>>
          /\ last'.op = "status" => last'.outcome = PresentStatus(last'.args[1])
      ]_vars

C8_Witness ==
    \E job_id \in DOMAIN jobs :
        /\ StatusCalledOn(job_id)
        /\ jobs[job_id].status = CANCELLED
        /\ last.outcome = Return("cancelled")

\* C9: for every job whose mapped status is not error, or whose command has
\* no dsmc, or whose command has md5sum, status equals the job's entry in
\* status_all and equals the mapping of its raw status.
C9_AgreeOutsideHeuristic ==
    \A job_id \in DOMAIN jobs :
        (StatusCalledOn(job_id)
            /\ (\/ DocumentedMapping(jobs[job_id].status) # "error"
                \/ ~HasDsmc(jobs[job_id])
                \/ HasMd5sum(jobs[job_id])))
        => /\ last.outcome = Return(DocumentedMapping(jobs[job_id].status))
           /\ last.outcome = Return(status_all(Self).value[job_id])

C9_Witness ==
    \E job_id \in DOMAIN jobs :
        /\ StatusCalledOn(job_id)
        /\ jobs[job_id].status = FAILED /\ ~HasDsmc(jobs[job_id]) /\ ~HasMd5sum(jobs[job_id])
        /\ jobs[job_id].returncode = Some(8)
        /\ last.outcome = Return("error")

\* C10: for a failed backup-tool job with return code 8 whose log holds no
\* warning at all, status returns done for every whitelist.
C10_NoWarningsIsDone ==
    \A job_id \in DOMAIN jobs :
        (StatusCalledOn(job_id) /\ FailedBackupJob(jobs[job_id])
            /\ jobs[job_id].returncode = Some(8) /\ WarningsOf(jobs[job_id]) = {})
        => last.outcome = Return("done")

====
